---- MODULE Spec2Model ----
(***************************************************************************)
(* Model of the video aggregation site: the client-side VideoService       *)
(* singleton (src/services/VideoService.ts) and the three proxy routes     *)
(* that sit between it and the upstream providers                          *)
(* (src/app/api/search/route.ts holds the search, video and list routes).  *)
(*                                                                         *)
(* Strings that the code hashes, lower-cases or searches in (video ids,    *)
(* queries, file codes) are sequences of character codes.                  *)
(* Time is counted in units of 30 minutes.                                 *)
(***************************************************************************)
EXTENDS Integers, Sequences, FiniteSets, TLC

\* ------------------------------------------------------------------------
\* Bounds of the model
\* ------------------------------------------------------------------------
MaxTicks == 1        \* number of clock advances in one behaviour
MaxMock == 1         \* records of a mock list that the model keeps
MaxSeed == 1         \* Math.random generator states 0..MaxSeed

\* ------------------------------------------------------------------------
\* Program constants
\* ------------------------------------------------------------------------
CACHE_DURATION_VIDEO == 24
CACHE_DURATION_LIST == 2
CACHE_DURATION_SEARCH_FULL == 2
CACHE_DURATION_ALL_VIDEOS == 1
MockSearchCount == 10
MockTotalPages == 100

\* ------------------------------------------------------------------------
\* Strings as sequences of character codes
\* ------------------------------------------------------------------------
EmptyStr == << >>
IdAa == <<65, 97>>
IdC == <<99, 65, 97>>
IdBB == <<66, 66>>
QueryZ == <<122, 122>>
MockTag == 109
WordSample == <<83, 97, 109, 112, 108, 101>>
WordUntitled == <<85, 110, 116, 105, 116, 108, 101, 100>>

Min(a, b) == IF a <= b THEN a ELSE b

ToLowerChar(c) == IF c >= 65 /\ c <= 90 THEN c + 32 ELSE c

ToLower(s) == [i \in 1..Len(s) |-> ToLowerChar(s[i])]

Includes(s, sub) ==
  \E i \in 0..(Len(s) - Len(sub)) :
    \A j \in 1..Len(sub) : s[i + j] = sub[j]

\* ((hash << 5) - hash + char), then Math.abs. The strings of the model are
\* shorter than six characters, so the sum stays inside 32 signed bits and
\* `hash & hash` leaves it as it is; the hexadecimal rendering is
\* one-to-one, so the number stands for the key.
RECURSIVE Md5Hash(_, _, _)
Md5Hash(str, i, hash) ==
  IF i > Len(str) THEN hash
  ELSE Md5Hash(str, i + 1, hash * 32 - hash + str[i])

md5(str) ==
  LET h == Md5Hash(str, 1, 0)
  IN IF h < 0 THEN 0 - h ELSE h

\* ------------------------------------------------------------------------
\* Upstream providers and what they can answer
\* ------------------------------------------------------------------------
Providers == <<"doodapi", "lulustream", "sdsd">>

ProviderSet == {Providers[i] : i \in 1..Len(Providers)}

ProviderIndex(p) == CHOOSE i \in 1..Len(Providers) : Providers[i] = p

ChainLuluFirst(route) ==
  CASE route = "search" -> <<"doodapi">>
    [] route = "video" -> <<"lulustream", "doodapi", "sdsd">>
    [] route = "list" -> <<"lulustream", "doodapi">>

\* The provider chain each route walks.
Chain(route) ==
  CASE route = "search" -> <<"doodapi">>
    [] route = "video" -> <<"doodapi", "lulustream", "sdsd">>
    [] route = "list" -> <<"doodapi", "lulustream">>

Routes == {"search", "video", "list"}

\* Raw upstream items: a file code (possibly missing), the first word of
\* the title (empty when the record has no title) and a view count, which
\* is whatever number the provider sends.
RawItem(code, title, views) == [file_code |-> code, title |-> title, views |-> views]

\* JSON bodies a provider answers with: an optional error member, the
\* records of the result and the total_pages it reports.
Body(err, items, pages) == [error |-> err, items |-> items, total_pages |-> pages]

Bodies ==
  { Body(FALSE, << >>, 1),
    Body(TRUE, << >>, 1),
    Body(FALSE, <<RawItem(IdAa, EmptyStr, 0 - 1000), RawItem(IdC, EmptyStr, 2000)>>, 2),
    Body(FALSE, <<RawItem(EmptyStr, EmptyStr, 0)>>, 1) }

\* How one upstream call ends: HTTP success with a JSON body, HTTP success
\* with a body json() cannot parse, a non-OK status, a network error, or an
\* abort by the route's AbortController.
FailKinds == {"badjson", "nonok", "neterr", "abort"}

Reply(kind, body) == [kind |-> kind, body |-> body]

NoBody == Body(FALSE, << >>, 0)

Replies ==
  {Reply("ok", b) : b \in Bodies} \cup {Reply(k, NoBody) : k \in FailKinds}

\* Request parameters of a route: page and per_page (list), id (video),
\* q (search); the members a route does not read are 0 or empty.
Param(page, per, str) == [page |-> page, per |-> per, str |-> str]

\* Math.random is not seeded: the generator state is any seed, and the
\* i-th number drawn is a function of it.
MockViews(seed, i) == ((seed + i) % 2) * 1000

\* The mock payload of a route, made at time t with generator state seed.
MockItems(route, param, t, seed) ==
  CASE route = "list" ->
         [i \in 1..Min(param.per, MaxMock) |->
            RawItem(<<MockTag, param.page, i, t>>, WordSample, MockViews(seed, i))]
    [] route = "video" ->
         <<RawItem(param.str, WordSample, MockViews(seed, 1))>>
    [] route = "search" ->
         [i \in 1..Min(MockSearchCount, MaxMock) |->
            RawItem(<<MockTag>> \o param.str \o <<i, t>>, param.str, MockViews(seed, i))]

MockBody(route, param, t, seed) ==
  Body(FALSE, MockItems(route, param, t, seed),
       IF route = "list" THEN MockTotalPages ELSE 0)

RouteResponse(source, body) == [api_source |-> source, body |-> body]

NoResponse == RouteResponse("none", NoBody)

\* The route run to its end against providers that answer as replies says
\* (a function from provider to reply): the first provider of the chain
\* that answers ok supplies the body, and the mock payload is the last resort.
RECURSIVE RouteWalk(_, _, _, _, _, _)
RouteWalk(route, param, replies, t, seed, i) ==
  IF i > Len(Chain(route)) THEN RouteResponse("mock", MockBody(route, param, t, seed))
  ELSE IF replies[Chain(route)[i]].kind = "ok"
       THEN RouteResponse(Chain(route)[i], replies[Chain(route)[i]].body)
       ELSE RouteWalk(route, param, replies, t, seed, i + 1)

RouteResult(route, param, replies, t, seed) ==
  RouteWalk(route, param, replies, t, seed, 1)

\* ------------------------------------------------------------------------
\* VideoService: the cache
\* ------------------------------------------------------------------------
\* null and a value that may be null
Null == << >>
Some(x) == <<x>>

PutEvicting(c, key, e) ==
  LET full == key \notin DOMAIN c /\ Cardinality(DOMAIN c) >= 2
      out == CHOOSE k \in DOMAIN c : \A j \in DOMAIN c : c[k].expiry <= c[j].expiry
      keep == IF full THEN (DOMAIN c) \ {out} ELSE DOMAIN c
  IN [k \in keep \cup {key} |-> IF k = key THEN e ELSE c[k]]

\* Map.set: the entry under key is replaced, every other entry stays.
Put(c, key, e) == [k \in (DOMAIN c) \cup {key} |-> IF k = key THEN e ELSE c[k]]
Delete(c, key) == [k \in (DOMAIN c) \ {key} |-> c[k]]
EmptyCache == [k \in {} |-> 0]

\* Cache keys: all_videos_complete, list_page_<page>_per_<perPage>,
\* mobile_video_<md5(id)>, search_full_<md5(lower-cased query)>.
ALL_VIDEOS_CACHE_KEY == <<"all_videos_complete", 0, 0>>
ListKey(page, perPage) == <<"list_page", page, perPage>>
MobileKey(id) == <<"mobile_video", md5(id), 0>>
SearchKey(query) == <<"search_full", md5(ToLower(query)), 0>>

\* An entry is { data, expiry }; storedAt and duration record the setCache
\* call that made it, and written marks the entry until the saveCache of
\* that call has been carried out.
CacheItem(data, expiry, t, duration) ==
  [data |-> data, expiry |-> expiry, storedAt |-> t, duration |-> duration,
   written |-> TRUE]

GetCacheLate(c, key, t) ==
  IF key \notin DOMAIN c THEN [cache |-> c, data |-> Null]
  ELSE IF t >= c[key].expiry THEN [cache |-> Delete(c, key), data |-> Null]
  ELSE [cache |-> c, data |-> Some(c[key].data)]

\* getCache at time t: the cache afterwards and the value returned.
GetCache(c, key, t) ==
  IF key \notin DOMAIN c THEN [cache |-> c, data |-> Null]
  ELSE IF t > c[key].expiry THEN [cache |-> Delete(c, key), data |-> Null]
  ELSE [cache |-> c, data |-> Some(c[key].data)]

GetCacheWithoutExpiry(c, key) ==
  IF key \in DOMAIN c THEN Some(c[key].data) ELSE Null

SetCache(c, key, data, duration, t) ==
  Put(c, key, CacheItem(data, t + duration, t, duration))

\* JSON.stringify(Array.from(this.cache.entries())): each key with the
\* data and the expiry of its entry.
Serialize(c) == [k \in DOMAIN c |-> [data |-> c[k].data, expiry |-> c[k].expiry]]

\* The cache once the saveCache calls of a step have been carried out.
Committed(c) == [k \in DOMAIN c |-> [c[k] EXCEPT !.written = FALSE]]

\* saveCache: in a browser the blob video_cache is replaced.
SaveCache(s, c) ==
  IF s.window THEN [s EXCEPT !.video_cache = Some(Serialize(c))] ELSE s

\* localStorage after a step that leaves the cache c: setCache saves the
\* whole cache, a deletion alone saves nothing.
Persisted(s, c) ==
  IF s.window /\ \E k \in DOMAIN c : c[k].written THEN SaveCache(s, c) ELSE s

\* clearExpiredCache at time t: the loop over the entries, deleting each one
\* with t > expiry and counting it; the result is the cache left and the
\* count returned.
RECURSIVE ClearExpiredFrom(_, _, _, _)
ClearExpiredFrom(c, keys, t, cleared) ==
  IF keys = {} THEN [cache |-> c, cleared |-> cleared]
  ELSE LET key == CHOOSE k \in keys : TRUE
       IN IF t > c[key].expiry
          THEN ClearExpiredFrom(Delete(c, key), keys \ {key}, t, cleared + 1)
          ELSE ClearExpiredFrom(c, keys \ {key}, t, cleared)

ClearExpiredAtExpiry(c, t) ==
  LET keep == {x \in DOMAIN c : t < c[x].expiry}
  IN [cache |-> [k \in keep |-> c[k]], cleared |-> Cardinality((DOMAIN c) \ keep)]

ClearExpired(c, t) == ClearExpiredFrom(c, DOMAIN c, t, 0)

\* ------------------------------------------------------------------------
\* VideoService: normalization, deduplication, search
\* ------------------------------------------------------------------------
Video(code, title, views, source) ==
  [file_code |-> code, title |-> title, views |-> views, source |-> source]

\* A word of the title as cleanAndFormatTitle writes it: first character
\* upper-case, the rest lower-case; a record without title is "Untitled ...".
ToUpperChar(c) == IF c >= 97 /\ c <= 122 THEN c - 32 ELSE c

FormatWord(w) ==
  [i \in 1..Len(w) |-> IF i = 1 THEN ToUpperChar(w[i]) ELSE ToLowerChar(w[i])]

CleanAndFormatTitle(title) ==
  IF title = EmptyStr THEN WordUntitled ELSE FormatWord(title)

CanNormalize(item) == item.file_code # EmptyStr

\* normalizeVideoFromAPI, for an item that has a file code
NormalizeVideoFromAPI(item, source) ==
  Video(item.file_code, CleanAndFormatTitle(item.title), item.views, source)

RECURSIVE RemoveDuplicatesFrom(_, _, _)
RemoveDuplicatesFrom(videos, i, unique) ==
  IF i > Len(videos) THEN unique
  ELSE IF videos[i].file_code # EmptyStr
          /\ \A j \in 1..Len(unique) : unique[j].file_code # videos[i].file_code
       THEN RemoveDuplicatesFrom(videos, i + 1, Append(unique, videos[i]))
       ELSE RemoveDuplicatesFrom(videos, i + 1, unique)

RemoveDuplicatesKeepLast(videos) ==
  LET n == Len(videos)
      u == RemoveDuplicatesFrom([i \in 1..n |-> videos[n + 1 - i]], 1, << >>)
  IN [i \in 1..Len(u) |-> u[Len(u) + 1 - i]]

RemoveDuplicateVideos(videos) == RemoveDuplicatesFrom(videos, 1, << >>)

StartsWith(s, pre) ==
  Len(pre) <= Len(s) /\ \A j \in 1..Len(pre) : s[j] = pre[j]

\* The tag list holds the lower-cased title words longer than two characters.
TagMatches(video, term) ==
  Len(video.title) > 2 /\ Includes(ToLower(video.title), term)

\* calculateRelevance for a one-word query (the description embeds the
\* title; view counts of the model are multiples of 1000).
CalculateRelevance(video, query) ==
  LET q == ToLower(query)
      titleLower == ToLower(video.title)
  IN (IF Includes(titleLower, q) THEN 20 ELSE 0)
     + (IF StartsWith(titleLower, q) THEN 15 ELSE 0)
     + (IF Includes(titleLower, q) THEN 5 ELSE 0)
     + (IF Includes(titleLower, q) THEN 2 ELSE 0)
     + (IF TagMatches(video, q) THEN 3 ELSE 0)
     + (IF Includes(ToLower(video.file_code), q) THEN 1 ELSE 0)
     + Min(video.views \div 1000, 10)

\* { ...normalizedItem, relevance }: a SearchResult is a Video with one
\* more member.
Scored(video, query) == [relevance |-> CalculateRelevance(video, query)] @@ video

\* Array.prototype.sort((a, b) => b.relevance - a.relevance): stable,
\* by insertion.
RECURSIVE InsertByRelevance(_, _)
InsertByRelevance(sorted, v) ==
  IF sorted = << >> THEN <<v>>
  ELSE IF sorted[Len(sorted)].relevance >= v.relevance THEN Append(sorted, v)
       ELSE Append(InsertByRelevance(SubSeq(sorted, 1, Len(sorted) - 1), v),
                   sorted[Len(sorted)])

RECURSIVE SortFrom(_, _, _)
SortFrom(items, i, sorted) ==
  IF i > Len(items) THEN sorted
  ELSE SortFrom(items, i + 1, InsertByRelevance(sorted, items[i]))

SortByRelevanceSkipped(items) == items

SortByRelevance(items) == SortFrom(items, 1, << >>)

RECURSIVE FilterFrom(_, _, _, _)
FilterFrom(videos, i, query, kept) ==
  IF i > Len(videos) THEN kept
  ELSE LET v == videos[i]
           q == ToLower(query)
           hit == \/ Includes(ToLower(v.title), q)
                  \/ Includes(ToLower(v.file_code), q)
                  \/ TagMatches(v, q)
       IN FilterFrom(videos, i + 1, query, IF hit THEN Append(kept, v) ELSE kept)

SearchResultLimit == 100

SearchInCompleteData(allVideos, query) ==
  LET hits == FilterFrom(allVideos, 1, query, << >>)
      scored == SortByRelevance([i \in 1..Len(hits) |-> Scored(hits[i], query)])
  IN SubSeq(scored, 1, Min(Len(scored), SearchResultLimit))

\* ------------------------------------------------------------------------
\* VideoService: what fetch delivers to the client
\* ------------------------------------------------------------------------
\* fetch rejects (neterr), answers with a non-OK status (nonok), or
\* delivers the JSON of the proxy route.
FetchResult(kind, data) == [kind |-> kind, data |-> data]

ClientReplies == {r \in Replies : r.kind \in {"ok", "neterr"}}

ChainSet(route) == {Chain(route)[i] : i \in 1..Len(Chain(route))}

\* What the mock payload draws at random plays no part in the service.
ClientSeeds == {0}

\* The client passes no AbortSignal and arms no timer for its fetch calls.
ClientFetchSignal == FALSE

ClientFetchResults(route, param, t, mockAllowed) ==
  {FetchResult("neterr", NoResponse), FetchResult("nonok", NoResponse)}
  \cup {fr \in {FetchResult("json", RouteResult(route, param, replies, t, seed)) :
                  replies \in [ChainSet(route) -> ClientReplies], seed \in ClientSeeds} :
          mockAllowed \/ fr.data.api_source # "mock"}

\* The statements inside try that throw: a failed fetch, a non-OK status,
\* an error member in the body, a record without file code.
FetchThrows(fr) ==
  \/ fr.kind \in {"neterr", "nonok"}
  \/ fr.data.body.error

NormalizeThrows(items) == \E i \in 1..Len(items) : ~CanNormalize(items[i])

\* ------------------------------------------------------------------------
\* VideoService.getListFiles
\* ------------------------------------------------------------------------
ApiResponse(status, files, totalPages, source) ==
  [status |-> status, files |-> files, total_pages |-> totalPages, api_source |-> source]

FailedResponse == ApiResponse(500, << >>, 1, "error")

HasFiles(x) == x # Null /\ Len(x[1].files) > 0

\* Up to the fetch: a fresh entry with files is returned; otherwise the
\* entry that is left is kept as oldCache.
ListBegin(c, t, page, perPage) ==
  LET g == GetCache(c, ListKey(page, perPage), t)
  IN IF HasFiles(g.data)
     THEN [done |-> TRUE, resp |-> g.data[1], cache |-> g.cache, old |-> Null]
     ELSE [done |-> FALSE, resp |-> FailedResponse, cache |-> g.cache,
           old |-> GetCacheWithoutExpiry(g.cache, ListKey(page, perPage))]

\* The try block and its catch, from the settled fetch to the return.
ListTryCatch(c, t, page, perPage, old, fr) ==
  IF FetchThrows(fr) \/ NormalizeThrows(fr.data.body.items)
  THEN [rejected |-> FALSE, cache |-> c,
        resp |-> IF HasFiles(old) THEN old[1] ELSE FailedResponse]
  ELSE LET body == fr.data.body
           files == [i \in 1..Len(body.items) |->
                       NormalizeVideoFromAPI(body.items[i], fr.data.api_source)]
           result == ApiResponse(200, files,
                                 IF body.total_pages = 0 THEN 1 ELSE body.total_pages,
                                 fr.data.api_source)
       IN IF Len(files) > 0
          THEN [rejected |-> FALSE, resp |-> result,
                cache |-> SetCache(c, ListKey(page, perPage), result, CACHE_DURATION_LIST, t)]
          ELSE [rejected |-> FALSE, cache |-> c,
                resp |-> IF HasFiles(old) THEN old[1] ELSE result]

ListFinishNormalizeOutsideTry(c, t, page, perPage, old, fr) ==
  IF ~FetchThrows(fr) /\ NormalizeThrows(fr.data.body.items)
  THEN [rejected |-> TRUE, cache |-> c, resp |-> FailedResponse]
  ELSE ListTryCatch(c, t, page, perPage, old, fr)

\* getListFiles after the fetch settled: nothing thrown inside try leaves it.
ListFinish(c, t, page, perPage, old, fr) ==
  ListTryCatch(c, t, page, perPage, old, fr)

\* ------------------------------------------------------------------------
\* VideoService.getVideo
\* ------------------------------------------------------------------------
HomePages == 5
HomePerPage == 30

RECURSIVE FindVideo(_, _, _)
FindVideo(videos, id, i) ==
  IF i > Len(videos) THEN Null
  ELSE IF videos[i].file_code = id THEN Some(videos[i])
       ELSE FindVideo(videos, id, i + 1)

RECURSIVE SearchInHomeFrom(_, _, _)
SearchInHomeFrom(c, id, page) ==
  IF page > HomePages THEN Null
  ELSE LET listCache == GetCacheWithoutExpiry(c, ListKey(page, HomePerPage))
           found == IF listCache = Null THEN Null ELSE FindVideo(listCache[1].files, id, 1)
       IN IF found # Null THEN found ELSE SearchInHomeFrom(c, id, page + 1)

SearchInHomeCache(c, id) == SearchInHomeFrom(c, id, 1)

Usable(x) == x # Null /\ x[1].file_code # EmptyStr

\* What a step of a call leaves: the cache, where the call goes next
\* ("done", "all" = the getAllVideos call, "fetch"), and when it is done
\* whether it resolved and to what.
Eff(c, next, outcome, res, old) ==
  [cache |-> c, next |-> next, outcome |-> outcome, res |-> res, old |-> old]

VideoBeginSkipHome(c, t, id) ==
  LET g == GetCache(c, MobileKey(id), t)
  IN IF Usable(g.data) THEN Eff(g.cache, "done", "resolved", g.data, Null)
     ELSE Eff(g.cache, "all", "pending", Null, Null)

\* Priority 1 and 2: the mobile cache, then the cached list pages.
VideoBegin(c, t, id) ==
  LET g == GetCache(c, MobileKey(id), t)
      home == SearchInHomeCache(g.cache, id)
  IN IF Usable(g.data) THEN Eff(g.cache, "done", "resolved", g.data, Null)
     ELSE IF home # Null
     THEN Eff(SetCache(g.cache, MobileKey(id), home[1], CACHE_DURATION_VIDEO, t),
              "done", "resolved", home, Null)
     ELSE Eff(g.cache, "all", "pending", Null, Null)

\* Priority 3: the complete collection; then oldCache is read and the
\* fetch of /api/video/{id} is issued.
VideoAfterAll(c, t, id, allVideos) ==
  LET found == FindVideo(allVideos, id, 1)
  IN IF found # Null
     THEN Eff(SetCache(c, MobileKey(id), found[1], CACHE_DURATION_VIDEO, t),
              "done", "resolved", found, Null)
     ELSE Eff(c, "fetch", "pending", Null, GetCacheWithoutExpiry(c, MobileKey(id)))

VideoFinish(c, t, id, old, fr) ==
  LET fallback == IF Usable(old) THEN Eff(c, "done", "resolved", old, old)
                  ELSE Eff(c, "done", "rejected", Null, old)
  IN IF FetchThrows(fr) THEN fallback
     ELSE IF Len(fr.data.body.items) = 0 THEN fallback
     ELSE IF ~CanNormalize(fr.data.body.items[1]) THEN fallback
     ELSE LET videoData == NormalizeVideoFromAPI(fr.data.body.items[1], fr.data.api_source)
          IN Eff(SetCache(c, MobileKey(id), videoData, CACHE_DURATION_VIDEO, t),
                 "done", "resolved", Some(videoData), old)

\* ------------------------------------------------------------------------
\* VideoService.getSearch
\* ------------------------------------------------------------------------
RecentLimit == 10

RECURSIVE Without(_, _)
Without(seq, x) ==
  IF seq = << >> THEN << >>
  ELSE IF seq[1] = x THEN Without(Tail(seq), x)
       ELSE <<seq[1]>> \o Without(Tail(seq), x)

SaveRecentSearch(recentList, keyword) ==
  LET updated == <<keyword>> \o Without(recentList, keyword)
  IN SubSeq(updated, 1, Min(Len(updated), RecentLimit))

SearchBegin(c, t, query) ==
  LET g == GetCache(c, SearchKey(query), t)
  IN IF g.data # Null THEN Eff(g.cache, "done", "resolved", g.data, Null)
     ELSE Eff(g.cache, "all", "pending", Null, GetCacheWithoutExpiry(g.cache, SearchKey(query)))

SearchAfterAll(c, t, query, allVideos, old) ==
  LET results == SearchInCompleteData(allVideos, query)
  IN IF Len(allVideos) > 0 /\ Len(results) > 0
     THEN Eff(SetCache(c, SearchKey(query), results, CACHE_DURATION_SEARCH_FULL, t),
              "done", "resolved", Some(results), old)
     ELSE Eff(c, "fetch", "pending", Null, old)

SearchFinish(c, t, query, old, fr) ==
  LET fallback == IF old # Null /\ Len(old[1]) > 0
                  THEN Eff(c, "done", "resolved", old, old)
                  ELSE Eff(c, "done", "resolved", Some(<< >>), old)
  IN IF FetchThrows(fr) \/ NormalizeThrows(fr.data.body.items) THEN fallback
     ELSE LET items == fr.data.body.items
              scoredItems == SortByRelevance(
                [i \in 1..Len(items) |->
                   Scored(NormalizeVideoFromAPI(items[i], fr.data.api_source), query)])
          IN IF Len(scoredItems) > 0
             THEN Eff(SetCache(c, SearchKey(query), scoredItems, CACHE_DURATION_SEARCH_FULL, t),
                      "done", "resolved", Some(scoredItems), old)
             ELSE fallback

\* ------------------------------------------------------------------------
\* public/sw.js: the service worker
\* ------------------------------------------------------------------------
ApiPrefix == <<47, 97, 112, 105, 47>>          \* "/api/"
ApiSearchPath == ApiPrefix \o <<115>>          \* "/api/s"
ApiListPath == ApiPrefix \o <<108>>            \* "/api/l"
WatchPath == <<47, 119>>                       \* "/w"
ApiPagePath == <<47, 97, 112, 105>>            \* "/api", a page outside /api/
SwPaths == {ApiSearchPath, ApiListPath, WatchPath, ApiPagePath}

Response(ok, status, body) == [ok |-> ok, status |-> status, body |-> body]

\* What fetch(request) can give: a response, OK or not, or Null for a
\* rejection.
SwNetwork ==
  {Some(Response(TRUE, 200, "first")), Some(Response(TRUE, 200, "second")),
   Some(Response(FALSE, 500, "error")), Null}

OfflineJson == Response(FALSE, 503, "{error: Offline}")

\* handleApiRequest on the API cache c: the cache afterwards and the value
\* the handler resolves to.
HandleApiRequestStoringAll(c, path, net) ==
  IF net # Null
  THEN [cache |-> [c EXCEPT ![path] = net], response |-> net]
  ELSE IF c[path] # Null THEN [cache |-> c, response |-> c[path]]
  ELSE [cache |-> c, response |-> Some(OfflineJson)]

HandleApiRequest(c, path, net) ==
  IF net # Null /\ net[1].ok
  THEN [cache |-> [c EXCEPT ![path] = net], response |-> net]
  ELSE IF c[path] # Null THEN [cache |-> c, response |-> c[path]]
  ELSE [cache |-> c, response |-> Some(OfflineJson)]

\* handleDynamicRequest on the dynamic cache c: networkPromise resolves to
\* the response or, after a rejection, to null; being a promise it is never
\* falsy, so the Offline response after || is never built.
HandleDynamicRequest(c, path, net) ==
  LET cachedResponse == c[path]
      networkPromise == net
      updated == IF net # Null /\ net[1].ok THEN [c EXCEPT ![path] = net] ELSE c
  IN IF cachedResponse # Null
     THEN [cache |-> updated, response |-> cachedResponse]
     ELSE [cache |-> updated, response |-> networkPromise]

NoEvent ==
  [api |-> [path \in SwPaths |-> Null], dynamic |-> [path \in SwPaths |-> Null],
   method |-> "none", path |-> EmptyStr, network |-> Null,
   handled |-> FALSE, response |-> Null]

\* ------------------------------------------------------------------------
\* State
\* ------------------------------------------------------------------------
VARIABLES
  now,                  \* Date.now()
  ticks,                \* clock advances so far
  req,                  \* the request a proxy route is serving
  prevMock,             \* the mock payload a route returned last, and for which request
  cache,                \* VideoService.cache
  isLoadingAllVideos,   \* VideoService.isLoadingAllVideos
  allVideosPromise,     \* VideoService.allVideosPromise: a load, or 0 for null
  loads,                \* the runs of loadAllVideosInternal
  loadSeq,              \* runs started so far
  tasks,                \* the calls of VideoService methods that are under way
  ops,                  \* calls made so far
  recent,               \* localStorage recent_searches
  bgTimer,              \* the 2-second timer of the constructor is armed
  storage,              \* whether there is a window, and localStorage video_cache
  sw,                   \* the service worker: its caches and the last fetch event
  ui                    \* the state of Header and SearchComponent

routeVars == <<req, prevMock>>

clientVars ==
  <<cache, isLoadingAllVideos, allVideosPromise, loads, loadSeq, tasks, ops, recent, bgTimer,
    storage>>

pageVars == <<sw, ui>>

\* The clock advances to the end of a cache lifetime or just past it.
Durations == {CACHE_DURATION_ALL_VIDEOS, CACHE_DURATION_LIST, CACHE_DURATION_VIDEO}

TickSteps == Durations \cup {d + 1 : d \in Durations}

\* ------------------------------------------------------------------------
\* The proxy routes (search, video, list), one request at a time
\* ------------------------------------------------------------------------
RouteParams(route) ==
  CASE route = "list" -> {Param(pg, 30, EmptyStr) : pg \in 1..2}
    [] route = "video" -> {Param(0, 0, id) : id \in {IdAa, IdC}}
    [] route = "search" -> {Param(0, 0, q) : q \in {IdAa, QueryZ}}

\* The routes pass a body on as it is: two bodies tell them apart.
RouteReplies ==
  {r \in Replies : r.kind = "ok" => (r.body.error \/ Len(r.body.items) = 2)}

IdleReq ==
  [route |-> "none", param |-> Param(0, 0, EmptyStr), pc |-> "idle", idx |-> 0,
   contacted |-> << >>, outcomes |-> << >>, aborted |-> FALSE, timer |-> FALSE,
   resp |-> NoResponse]

NoMock == [route |-> "none", param |-> Param(0, 0, EmptyStr), body |-> NoBody]

\* A request arrives: the handler creates its AbortController, arms the
\* timeout and calls the first provider of its chain.
RouteBegin(route, param) ==
  /\ req.pc \in {"idle", "done"}
  /\ req' = [IdleReq EXCEPT !.route = route, !.param = param, !.pc = "await",
                            !.idx = 1, !.contacted = <<Chain(route)[1]>>,
                            !.timer = TRUE]
  /\ prevMock' = IF req.pc = "done" /\ req.resp.api_source = "mock"
                 THEN [route |-> req.route, param |-> req.param, body |-> req.resp.body]
                 ELSE prevMock
  /\ UNCHANGED <<now, ticks, clientVars, pageVars>>

\* The pending upstream call ends with reply. An aborted signal rejects the
\* call; ok ends the request with the provider's body (and clears the
\* timeout); anything else falls through to the next provider of the chain,
\* or to the mock payload after the last one (the timeout stays armed).
ProviderSettle(reply, seed) ==
  /\ req.pc = "await"
  /\ (reply.kind = "abort") = req.aborted
  /\ LET chain == Chain(req.route)
         outs == Append(req.outcomes, reply)
     IN req' =
          IF reply.kind = "ok"
          THEN [req EXCEPT !.outcomes = outs, !.pc = "done", !.timer = FALSE,
                           !.resp = RouteResponse(chain[req.idx], reply.body)]
          ELSE IF req.idx < Len(chain)
          THEN [req EXCEPT !.outcomes = outs, !.idx = req.idx + 1,
                           !.contacted = Append(req.contacted, chain[req.idx + 1])]
          ELSE [req EXCEPT !.outcomes = outs, !.pc = "done",
                           !.resp = RouteResponse("mock",
                                      MockBody(req.route, req.param, now, seed))]
  /\ UNCHANGED <<now, ticks, prevMock, clientVars, pageVars>>

\* The timeout of the request fires: controller.abort().
RouteTimerFire ==
  /\ req.timer
  /\ req' = [req EXCEPT !.timer = FALSE, !.aborted = TRUE]
  /\ UNCHANGED <<now, ticks, prevMock, clientVars, pageVars>>

\* Time passes. A step is 30 minutes or more: the 2-second timer of the
\* constructor and the timeout of a route have fired before.
Tick(d) ==
  /\ ticks < MaxTicks
  /\ ~bgTimer
  /\ now' = now + d
  /\ ticks' = ticks + 1

RouteTick ==
  /\ ~req.timer
  /\ Tick(1)
  /\ UNCHANGED <<routeVars, clientVars, pageVars>>

\* ------------------------------------------------------------------------
\* VideoService: loadAllVideosInternal
\* ------------------------------------------------------------------------
MaxTasks == 2        \* calls under way at the same time
MaxLoads == 2        \* runs of loadAllVideosInternal not yet collected
MaxOps == 2          \* calls in one behaviour
MaxLoadPages == 1    \* list pages of a run for which the mock payload is served

LoadPerPage == 100
LoadMaxPages == 50

TaskIds == 1..MaxTasks

\* Who awaits a call: nobody that is followed, the Header, or the
\* SearchComponent with the recentSearches of the render that made the call.
\* last marks the call of the query the Header started last.
NoCaller == [who |-> "none", recentSearches |-> << >>, last |-> FALSE]
LoadIds == 1..MaxLoads

\* cutShort records that the run kept videos and was ended by a page whose
\* fetch failed.
FreeLoad ==
  [state |-> "free", inst |-> 0, currentPage |-> 0, totalPages |-> 0,
   allVideos |-> << >>, old |-> Null, result |-> << >>, cutShort |-> FALSE]

NewLoad(inst) ==
  [FreeLoad EXCEPT !.state = "run", !.inst = inst, !.currentPage = 1, !.totalPages = 1]

InFlight(ld) == ld.state \in {"run", "fetch", "delay"}

\* After the loop: deduplicate, cache the collection, return it.
LoadFinish(ld, c, t) ==
  LET uniqueVideos == RemoveDuplicateVideos(ld.allVideos)
  IN [load |-> [ld EXCEPT !.state = "resolved", !.result = uniqueVideos],
      cache |-> SetCache(c, ALL_VIDEOS_CACHE_KEY, uniqueVideos, CACHE_DURATION_ALL_VIDEOS, t)]

\* The catch block: return what was collected, cached if not empty.
LoadCatch(ld, c, t) ==
  LET uniqueVideos == RemoveDuplicateVideos(ld.allVideos)
  IN [load |-> [ld EXCEPT !.state = "resolved", !.result = uniqueVideos],
      cache |-> IF Len(uniqueVideos) > 0
                THEN SetCache(c, ALL_VIDEOS_CACHE_KEY, uniqueVideos,
                              CACHE_DURATION_ALL_VIDEOS, t)
                ELSE c]

LoadAfterPageUnbounded(ld, response, c, t) ==
  LET collected == IF Len(response.files) > 0
                   THEN ld.allVideos \o response.files ELSE ld.allVideos
      total == IF response.total_pages # 0 /\ response.total_pages # ld.totalPages
               THEN response.total_pages ELSE ld.totalPages
      next == [ld EXCEPT !.allVideos = collected, !.totalPages = total, !.old = Null]
  IN IF Len(response.files) = 0 THEN LoadFinish(next, c, t)
     ELSE IF ld.currentPage + 1 <= total
     THEN [load |-> [next EXCEPT !.state = "delay", !.currentPage = ld.currentPage + 1],
           cache |-> c]
     ELSE LoadFinish([next EXCEPT !.currentPage = ld.currentPage + 1], c, t)

\* The loop body after getListFiles returned response, and the loop
\* condition for the next page.
LoadAfterPage(ld, response, c, t) ==
  LET collected == IF Len(response.files) > 0
                   THEN ld.allVideos \o response.files ELSE ld.allVideos
      total == IF response.total_pages # 0 /\ response.total_pages # ld.totalPages
               THEN Min(response.total_pages, LoadMaxPages) ELSE ld.totalPages
      next == [ld EXCEPT !.allVideos = collected, !.totalPages = total, !.old = Null]
  IN IF Len(response.files) = 0 THEN LoadFinish(next, c, t)
     ELSE IF ld.currentPage + 1 <= total /\ ld.currentPage + 1 <= LoadMaxPages
     THEN [load |-> [next EXCEPT !.state = "delay", !.currentPage = ld.currentPage + 1],
           cache |-> c]
     ELSE LoadFinish([next EXCEPT !.currentPage = ld.currentPage + 1], c, t)

\* One turn of the loop up to its await: getListFiles answers from the
\* cache or issues the fetch.
LoadIterate(ld, c, t) ==
  LET b == ListBegin(c, t, ld.currentPage, LoadPerPage)
  IN IF b.done THEN LoadAfterPage(ld, b.resp, b.cache, t)
     ELSE [load |-> [ld EXCEPT !.state = "fetch", !.old = b.old], cache |-> b.cache]

\* ------------------------------------------------------------------------
\* VideoService: the public calls
\* ------------------------------------------------------------------------
Ops == {"getAllVideos", "refreshAllVideos", "getListFiles", "getVideo", "getSearch"}

OpArgs(op) ==
  CASE op = "getListFiles" -> {Param(1, HomePerPage, EmptyStr)}
    [] op = "getVideo" -> {Param(0, 0, IdAa), Param(0, 0, IdBB)}
    [] op = "getSearch" -> {Param(0, 0, IdAa), Param(0, 0, QueryZ)}
    [] OTHER -> {Param(0, 0, EmptyStr)}

OpRoute(op) ==
  CASE op = "getListFiles" -> "list"
    [] op = "getVideo" -> "video"
    [] op = "getSearch" -> "search"
    [] OTHER -> "none"

\* The cache key a call reads first.
OpKey(op, arg) ==
  CASE op = "getListFiles" -> ListKey(arg.page, arg.per)
    [] op = "getVideo" -> MobileKey(arg.str)
    [] op = "getSearch" -> SearchKey(arg.str)
    [] OTHER -> ALL_VIDEOS_CACHE_KEY

FreeTask ==
  [op |-> "none", arg |-> Param(0, 0, EmptyStr), pc |-> "free", load |-> 0,
   starter |-> FALSE, old |-> Null, outcome |-> "pending", res |-> Null,
   inst |-> 0, signal |-> FALSE,
   snap |-> Null, snapExpired |-> FALSE,
   fetched |-> FALSE, failed |-> FALSE, badRecord |-> FALSE, mock |-> FALSE]

\* A call as it starts, with what the cache held for its key.
NewTask(op, arg, c, t) ==
  [FreeTask EXCEPT !.op = op, !.arg = arg, !.pc = "run",
                   !.snap = GetCacheWithoutExpiry(c, OpKey(op, arg)),
                   !.snapExpired = (OpKey(op, arg) \in DOMAIN c
                                      /\ t > c[OpKey(op, arg)].expiry)]

\* The part of a call before its first await.
Begin(op, arg, c, t) ==
  CASE op = "getListFiles" ->
         LET b == ListBegin(c, t, arg.page, arg.per)
         IN IF b.done THEN Eff(b.cache, "done", "resolved", Some(b.resp), Null)
            ELSE Eff(b.cache, "fetch", "pending", Null, b.old)
    [] op = "getVideo" -> VideoBegin(c, t, arg.str)
    [] op = "getSearch" -> SearchBegin(c, t, arg.str)
    [] op \in {"getAllVideos", "getPopularVideos"} -> Eff(c, "all", "pending", Null, Null)
    [] op = "refreshAllVideos" ->
         Eff(Delete(c, ALL_VIDEOS_CACHE_KEY), "all", "pending", Null, Null)

\* The part of a call after getAllVideos returned allVideos.
\* Array.prototype.sort with (a, b) => b.views - a.views: a stable sort, the
\* most viewed first.
InsertByViews(sorted, v) ==
  LET less == {i \in 1..Len(sorted) : sorted[i].views < v.views}
      pos == IF less = {} THEN Len(sorted) + 1
             ELSE CHOOSE i \in less : \A j \in less : i <= j
  IN SubSeq(sorted, 1, pos - 1) \o <<v>> \o SubSeq(sorted, pos, Len(sorted))

RECURSIVE SortByViews(_)
SortByViews(videos) ==
  IF videos = << >> THEN << >>
  ELSE InsertByViews(SortByViews(SubSeq(videos, 1, Len(videos) - 1)), videos[Len(videos)])

PopularLimit == 20

\* getPopularVideos after getAllVideos returned allVideos: sort puts the
\* array itself in order, and it is the array the cache entry holds when
\* the entry is there; slice copies the first limit elements.
PopularAfterAll(c, allVideos, limit, old) ==
  LET sorted == SortByViews(allVideos)
      held == ALL_VIDEOS_CACHE_KEY \in DOMAIN c /\ c[ALL_VIDEOS_CACHE_KEY].data = allVideos
  IN Eff(IF held THEN [c EXCEPT ![ALL_VIDEOS_CACHE_KEY].data = sorted] ELSE c,
         "done", "resolved", Some(SubSeq(sorted, 1, Min(Len(sorted), limit))), old)

AfterAll(op, arg, c, t, allVideos, old) ==
  CASE op = "getVideo" -> VideoAfterAll(c, t, arg.str, allVideos)
    [] op = "getSearch" -> SearchAfterAll(c, t, arg.str, allVideos, old)
    [] op = "getPopularVideos" -> PopularAfterAll(c, allVideos, arg.per, old)
    [] OTHER -> Eff(c, "done", "resolved", Some(allVideos), old)

\* The part of a call after its fetch settled.
AfterFetch(op, arg, c, t, old, fr) ==
  CASE op = "getListFiles" ->
         LET r == ListFinish(c, t, arg.page, arg.per, old, fr)
         IN Eff(r.cache, "done", IF r.rejected THEN "rejected" ELSE "resolved",
                Some(r.resp), old)
    [] op = "getVideo" -> VideoFinish(c, t, arg.str, old, fr)
    [] op = "getSearch" -> SearchFinish(c, t, arg.str, old, fr)

JoinAlways(loading, promise) == FALSE

\* getAllVideos line 79: a load is running and its promise is there.
ShouldJoin(loading, promise) == loading /\ promise # 0

\* The task after a step that left e.
Settle(task, e) ==
  IF e.next = "done"
  THEN [task EXCEPT !.pc = "done", !.outcome = e.outcome, !.res = e.res, !.old = e.old,
                    !.load = 0, !.starter = FALSE]
  ELSE [task EXCEPT !.pc = "fetch", !.old = e.old, !.fetched = TRUE,
                    !.signal = ClientFetchSignal, !.load = 0, !.starter = FALSE]

LowestFree(S, P(_)) == CHOOSE x \in S : P(x) /\ \A y \in S : y < x => ~P(y)

TaskIsFree(t) == tasks[t].pc \in {"free", "done"}
LoadIsFree(l) == loads[l].state = "free"

\* A load nobody waits for and the service no longer points to is dropped.
Collect(ls, ts, promise) ==
  [l \in LoadIds |->
     IF ls[l].state = "resolved" /\ promise # l
        /\ \A t \in TaskIds : ~(ts[t].pc = "awaitAll" /\ ts[t].load = l)
     THEN FreeLoad ELSE ls[l]]

\* The call goes on from e: to its end, to its fetch, or into getAllVideos,
\* which answers from the cache, joins the load in flight or starts one.
\* The step leaves the cache c behind, and localStorage as its setCache
\* calls left it.
Store(c) ==
  /\ cache' = Committed(c)
  /\ storage' = Persisted(storage, c)

Proceed(t, task, e) ==
  IF e.next # "all"
  THEN /\ Store(e.cache)
       /\ tasks' = [tasks EXCEPT ![t] = Settle(task, e)]
       /\ UNCHANGED <<isLoadingAllVideos, allVideosPromise, loads, loadSeq>>
  ELSE LET g == GetCache(e.cache, ALL_VIDEOS_CACHE_KEY, now)
       IN IF g.data # Null /\ Len(g.data[1]) > 0
          THEN LET e2 == AfterAll(task.op, task.arg, g.cache, now, g.data[1], e.old)
               IN /\ Store(e2.cache)
                  /\ tasks' = [tasks EXCEPT ![t] = Settle(task, e2)]
                  /\ UNCHANGED <<isLoadingAllVideos, allVideosPromise, loads, loadSeq>>
          ELSE IF ShouldJoin(isLoadingAllVideos, allVideosPromise)
          THEN /\ Store(g.cache)
               /\ tasks' = [tasks EXCEPT ![t] =
                              [task EXCEPT !.pc = "awaitAll", !.old = e.old,
                                           !.load = allVideosPromise,
                                           !.inst = loads[allVideosPromise].inst]]
               /\ UNCHANGED <<isLoadingAllVideos, allVideosPromise, loads, loadSeq>>
          ELSE /\ \E l \in LoadIds : LoadIsFree(l)
               /\ LET l == LowestFree(LoadIds, LoadIsFree)
                      it == LoadIterate(NewLoad(loadSeq + 1), g.cache, now)
                  IN /\ Store(it.cache)
                     /\ loads' = [loads EXCEPT ![l] = it.load]
                     /\ loadSeq' = loadSeq + 1
                     /\ isLoadingAllVideos' = TRUE
                     /\ allVideosPromise' = l
                     /\ tasks' = [tasks EXCEPT ![t] =
                                    [task EXCEPT !.pc = "awaitAll", !.old = e.old,
                                                 !.load = l, !.starter = TRUE,
                                                 !.inst = loadSeq + 1]]

\* A method of the service is called.
Invoke(op, arg) ==
  /\ ops < MaxOps
  /\ \E t \in TaskIds : TaskIsFree(t)
  /\ LET t == LowestFree(TaskIds, TaskIsFree)
     IN Proceed(t, NewTask(op, arg, cache, now), Begin(op, arg, cache, now))
  /\ ops' = ops + 1
  /\ recent' = IF op = "getSearch" THEN SaveRecentSearch(recent, arg.str) ELSE recent
  /\ UNCHANGED <<now, ticks, routeVars, sw, bgTimer>>

\* A component calls a method of the service; what it does with the result
\* is not followed.
Call(op, arg) ==
  /\ Invoke(op, arg)
  /\ UNCHANGED ui

\* The timer of the constructor fires: getAllVideos().catch(...)
BackgroundLoad ==
  /\ bgTimer
  /\ \E t \in TaskIds : TaskIsFree(t)
  /\ LET t == LowestFree(TaskIds, TaskIsFree)
         op == "getAllVideos"
         arg == Param(0, 0, EmptyStr)
     IN Proceed(t, NewTask(op, arg, cache, now), Begin(op, arg, cache, now))
  /\ bgTimer' = FALSE
  /\ UNCHANGED <<now, ticks, routeVars, pageVars, ops, recent>>

\* The load a call awaits has resolved: the call goes on; the call that
\* started the load first runs its finally block.
Resume(t) ==
  /\ tasks[t].pc = "awaitAll"
  /\ loads[tasks[t].load].state = "resolved"
  /\ LET task == tasks[t]
         e == AfterAll(task.op, task.arg, cache, now, loads[task.load].result, task.old)
         promise == IF task.starter THEN 0 ELSE allVideosPromise
         ts == [tasks EXCEPT ![t] = Settle(task, e)]
     IN /\ Store(e.cache)
        /\ tasks' = ts
        /\ isLoadingAllVideos' = IF task.starter THEN FALSE ELSE isLoadingAllVideos
        /\ allVideosPromise' = promise
        /\ loads' = Collect(loads, ts, promise)
  /\ UNCHANGED <<now, ticks, routeVars, pageVars, loadSeq, ops, recent, bgTimer>>

\* The answer holds no record the call can use: none at all for getVideo,
\* one without file code for any call.
BadRecord(op, fr) ==
  /\ ~FetchThrows(fr)
  /\ IF op = "getVideo"
     THEN Len(fr.data.body.items) = 0 \/ ~CanNormalize(fr.data.body.items[1])
     ELSE NormalizeThrows(fr.data.body.items)

\* The fetch of a call settles with fr.
FetchSettle(t, fr) ==
  /\ tasks[t].pc = "fetch"
  /\ LET task == tasks[t]
         e == AfterFetch(task.op, task.arg, cache, now, task.old, fr)
     IN /\ Store(e.cache)
        /\ tasks' = [tasks EXCEPT ![t] =
                       [Settle(task, e) EXCEPT
                          !.failed = FetchThrows(fr),
                          !.badRecord = BadRecord(task.op, fr),
                          !.mock = (fr.kind = "json" /\ fr.data.api_source = "mock")]]
  /\ UNCHANGED <<now, ticks, routeVars, pageVars, isLoadingAllVideos, allVideosPromise, loads,
                 loadSeq, ops, recent, bgTimer>>

\* The fetch of the page a load waits for settles with fr.
LoadFetchSettle(l, fr) ==
  /\ loads[l].state = "fetch"
  /\ LET ld == loads[l]
         r == ListFinish(cache, now, ld.currentPage, LoadPerPage, ld.old, fr)
         it == IF r.rejected THEN LoadCatch(ld, r.cache, now)
               ELSE LoadAfterPage(ld, r.resp, r.cache, now)
         caught == FetchThrows(fr) \/ NormalizeThrows(fr.data.body.items)
         broken == caught /\ ~r.rejected /\ Len(r.resp.files) = 0 /\ Len(it.load.result) > 0
     IN /\ Store(it.cache)
        /\ loads' = [loads EXCEPT ![l] = [it.load EXCEPT !.cutShort = broken]]
  /\ UNCHANGED <<now, ticks, routeVars, pageVars, isLoadingAllVideos, allVideosPromise, loadSeq,
                 tasks, ops, recent, bgTimer>>

\* The 100 ms pause between two pages ends.
LoadDelayEnd(l) ==
  /\ loads[l].state = "delay"
  /\ LET it == LoadIterate(loads[l], cache, now)
     IN /\ Store(it.cache)
        /\ loads' = [loads EXCEPT ![l] = it.load]
  /\ UNCHANGED <<now, ticks, routeVars, pageVars, isLoadingAllVideos, allVideosPromise, loadSeq,
                 tasks, ops, recent, bgTimer>>

\* The callers have taken the results of the finished calls.
Taken(ts) == [t \in TaskIds |-> IF ts[t].pc = "done" THEN FreeTask ELSE ts[t]]

ClearCache ==
  /\ cache # EmptyCache
  /\ cache' = EmptyCache
  /\ storage' = IF storage.window THEN [storage EXCEPT !.video_cache = Null] ELSE storage
  /\ tasks' = Taken(tasks)
  /\ UNCHANGED <<now, ticks, routeVars, pageVars, isLoadingAllVideos, allVideosPromise, loads,
                 loadSeq, ops, recent, bgTimer>>

ClearExpiredCache ==
  /\ cache' = ClearExpired(cache, now).cache
  /\ cache' # cache
  /\ storage' = SaveCache(storage, cache')
  /\ tasks' = Taken(tasks)
  /\ UNCHANGED <<now, ticks, routeVars, pageVars, isLoadingAllVideos, allVideosPromise, loads,
                 loadSeq, ops, recent, bgTimer>>

ClientTick ==
  /\ \E d \in TickSteps : Tick(d)
  /\ tasks' = Taken(tasks)
  /\ UNCHANGED <<routeVars, pageVars, storage, cache, isLoadingAllVideos, allVideosPromise, loads,
                 loadSeq, ops, recent, bgTimer>>

HeaderLimit == 8

\* Header.handleSearch up to its await: a search for query starts 300 ms
\* after the last keystroke, whatever earlier searches are still under way.
HeaderSearch(query) ==
  /\ Invoke("getSearch", Param(0, 0, query))
  /\ LET t == LowestFree(TaskIds, TaskIsFree)
     IN ui' = [ui EXCEPT
                 !.pending = [u \in TaskIds |->
                                IF u = t
                                THEN [who |-> "header", recentSearches |-> << >>,
                                      last |-> TRUE]
                                ELSE [ui.pending[u] EXCEPT !.last = FALSE]],
                 !.query = Some(query),
                 !.latest = Null,
                 !.history = Append(@, query)]

\* SearchComponent.handleSearch up to its await; the rest of the handler
\* sees the recentSearches of the render that made the call.
ComponentSearch(searchTerm) ==
  /\ Invoke("getSearch", Param(0, 0, searchTerm))
  /\ LET t == LowestFree(TaskIds, TaskIsFree)
     IN ui' = [ui EXCEPT
                 !.pending[t] = [who |-> "component",
                                 recentSearches |-> ui.recentSearches, last |-> FALSE],
                 !.history = Append(@, searchTerm)]

\* A call made by a component has settled and has not been taken yet.
Settled(t) == tasks[t].pc = "done" /\ ui.pending[t].who # "none"

\* The handler that awaited call t goes on. Header: setSearchResults with
\* the first 8 results, or with [] in the catch block. SearchComponent:
\* the term is put in front of the recentSearches of its render and the
\* list is written to localStorage; nothing in the catch block.
Deliver(t) ==
  /\ Settled(t)
  /\ LET task == tasks[t]
         caller == ui.pending[t]
         results == IF task.outcome = "resolved"
                    THEN SubSeq(task.res[1], 1, Min(Len(task.res[1]), HeaderLimit))
                    ELSE << >>
         updated == SaveRecentSearch(caller.recentSearches, task.arg.str)
     IN IF caller.who = "header"
        THEN /\ ui' = [ui EXCEPT !.pending[t] = NoCaller,
                                 !.searchResults = results,
                                 !.shown = Some(task.arg.str),
                                 !.latest = IF caller.last THEN Some(results) ELSE @]
             /\ recent' = recent
        ELSE IF task.outcome = "resolved"
        THEN /\ ui' = [ui EXCEPT !.pending[t] = NoCaller, !.recentSearches = updated]
             /\ recent' = updated
        ELSE /\ ui' = [ui EXCEPT !.pending[t] = NoCaller]
             /\ recent' = recent
  /\ tasks' = [tasks EXCEPT ![t] = FreeTask]
  /\ UNCHANGED <<now, ticks, routeVars, sw, cache, storage, isLoadingAllVideos,
                 allVideosPromise, loads, loadSeq, ops, bgTimer>>

\* The fetch listener of the service worker gets a request for which the
\* network would give net: requests other than GET are left alone, those
\* under /api/ go to handleApiRequest, pages to handleDynamicRequest.
FetchEvent(method, path, net) ==
  /\ sw' = IF method # "GET"
           THEN [sw EXCEPT !.method = method, !.path = path, !.network = net,
                           !.handled = FALSE, !.response = Null]
           ELSE IF StartsWith(path, ApiPrefix)
           THEN LET h == HandleApiRequest(sw.api, path, net)
                IN [sw EXCEPT !.method = method, !.path = path, !.network = net,
                              !.handled = TRUE, !.api = h.cache,
                              !.response = h.response]
           ELSE LET h == HandleDynamicRequest(sw.dynamic, path, net)
                IN [sw EXCEPT !.method = method, !.path = path, !.network = net,
                              !.handled = TRUE, !.dynamic = h.cache,
                              !.response = h.response]
  /\ UNCHANGED <<now, ticks, routeVars, clientVars, ui>>

\* doBackgroundSync retries a request of the API cache and keeps the
\* response when it is OK.
BackgroundSync(path, net) ==
  /\ sw.api[path] # Null
  /\ sw' = [sw EXCEPT !.method = "sync", !.path = path, !.network = net,
                      !.handled = FALSE, !.response = Null,
                      !.api[path] = IF net # Null /\ net[1].ok THEN net ELSE @]
  /\ UNCHANGED <<now, ticks, routeVars, clientVars, ui>>

\* ------------------------------------------------------------------------
\* Specifications
\* ------------------------------------------------------------------------
vars == <<now, ticks, req, prevMock, cache, isLoadingAllVideos, allVideosPromise,
          loads, loadSeq, tasks, ops, recent, bgTimer, storage, sw, ui>>

\* Header and SearchComponent as they are mounted: nothing searched, and
\* the recent searches read from localStorage. query is the query of the
\* search the Header started last and latest the results it got, shown the
\* query whose results the Header shows, history the terms searched so far.
Mounted(recentList) ==
  [pending |-> [t \in TaskIds |-> NoCaller],
   searchResults |-> << >>, shown |-> Null, query |-> Null, latest |-> Null,
   recentSearches |-> recentList, history |-> << >>]

Init ==
  /\ now = 0
  /\ ticks = 0
  /\ req = IdleReq
  /\ prevMock = NoMock
  /\ cache = EmptyCache
  /\ isLoadingAllVideos = FALSE
  /\ allVideosPromise = 0
  /\ loads = [l \in LoadIds |-> FreeLoad]
  /\ loadSeq = 0
  /\ tasks = [t \in TaskIds |-> FreeTask]
  /\ ops = 0
  /\ recent = << >>
  /\ bgTimer = TRUE
  /\ storage = [window |-> TRUE, video_cache |-> Null]
  /\ sw = NoEvent
  /\ ui = Mounted(<< >>)

TaskFetchResults(t) ==
  ClientFetchResults(OpRoute(tasks[t].op), tasks[t].arg, now, TRUE)

LoadFetchResults(l) ==
  ClientFetchResults("list", Param(loads[l].currentPage, LoadPerPage, EmptyStr), now,
                     loads[l].currentPage <= MaxLoadPages)

\* No call is under way.
Idle == \A t \in TaskIds : tasks[t].pc \in {"free", "done"}

\* The service used by one component that awaits each call before it makes
\* the next, while time passes.
Next ==
  \/ Idle /\ \E op \in Ops : \E arg \in OpArgs(op) : Call(op, arg)
  \/ Idle /\ BackgroundLoad
  \/ \E t \in TaskIds : Resume(t)
  \/ \E t \in TaskIds : tasks[t].pc = "fetch" /\ \E fr \in TaskFetchResults(t) : FetchSettle(t, fr)
  \/ \E l \in LoadIds : loads[l].state = "fetch" /\ \E fr \in LoadFetchResults(l) : LoadFetchSettle(l, fr)
  \/ \E l \in LoadIds : LoadDelayEnd(l)
  \/ Idle /\ ClearCache
  \/ Idle /\ ClearExpiredCache
  \/ Idle /\ cache # EmptyCache /\ ClientTick

Spec == Init /\ [][Next]_vars

\* The service used by one component within one cache lifetime.
NextSeq ==
  \/ Idle /\ \E op \in Ops : \E arg \in OpArgs(op) : Call(op, arg)
  \/ Idle /\ BackgroundLoad
  \/ \E t \in TaskIds : Resume(t)
  \/ \E t \in TaskIds : tasks[t].pc = "fetch" /\ \E fr \in TaskFetchResults(t) : FetchSettle(t, fr)
  \/ \E l \in LoadIds : loads[l].state = "fetch" /\ \E fr \in LoadFetchResults(l) : LoadFetchSettle(l, fr)
  \/ \E l \in LoadIds : LoadDelayEnd(l)

SpecSeq == Init /\ [][NextSeq]_vars

\* The calls of the LoadingProgress panel (its refresh button) and of the
\* PreloadManager (the first home page).
ProgressCalls ==
  {<<"refreshAllVideos", Param(0, 0, EmptyStr)>>,
   <<"getListFiles", Param(1, HomePerPage, EmptyStr)>>}

\* The service used by these two components while time passes.
NextProgress ==
  \/ Idle /\ \E c \in ProgressCalls : Call(c[1], c[2])
  \/ Idle /\ BackgroundLoad
  \/ \E t \in TaskIds : Resume(t)
  \/ \E t \in TaskIds : tasks[t].pc = "fetch" /\ \E fr \in TaskFetchResults(t) : FetchSettle(t, fr)
  \/ \E l \in LoadIds : loads[l].state = "fetch" /\ \E fr \in LoadFetchResults(l) : LoadFetchSettle(l, fr)
  \/ \E l \in LoadIds : LoadDelayEnd(l)
  \/ Idle /\ ClearCache
  \/ Idle /\ ClearExpiredCache
  \/ Idle /\ cache # EmptyCache /\ ClientTick

SpecProgress == Init /\ [][NextProgress]_vars

\* Watching a video after browsing the home list: the calls of getVideo
\* and of the first home page, with the clock.
VideoCalls ==
  {<<"getVideo", Param(0, 0, IdAa)>>,
   <<"getListFiles", Param(1, HomePerPage, EmptyStr)>>}

NextVideo ==
  \/ Idle /\ \E c \in VideoCalls : Call(c[1], c[2])
  \/ Idle /\ BackgroundLoad
  \/ \E t \in TaskIds : Resume(t)
  \/ \E t \in TaskIds : tasks[t].pc = "fetch" /\ \E fr \in TaskFetchResults(t) : FetchSettle(t, fr)
  \/ \E l \in LoadIds : loads[l].state = "fetch" /\ \E fr \in LoadFetchResults(l) : LoadFetchSettle(l, fr)
  \/ \E l \in LoadIds : LoadDelayEnd(l)
  \/ Idle /\ cache # EmptyCache /\ ClientTick

SpecVideo == Init /\ [][NextVideo]_vars

\* Behaviours of the complete-collection loader alone: the calls that start
\* a run, with every answer /api/list can give at every page (the mock
\* payload, reporting MockTotalPages pages, included).
LoadCalls == {"getAllVideos"}

LoadPageResults(l) ==
  ClientFetchResults("list", Param(loads[l].currentPage, LoadPerPage, EmptyStr), now, TRUE)

NextLoad ==
  \/ Idle /\ \E op \in LoadCalls : Call(op, Param(0, 0, EmptyStr))
  \/ Idle /\ BackgroundLoad
  \/ \E t \in TaskIds : Resume(t)
  \/ \E l \in LoadIds : loads[l].state = "fetch" /\ \E fr \in LoadPageResults(l) : LoadFetchSettle(l, fr)
  \/ \E l \in LoadIds : LoadDelayEnd(l)

\* A run waits for the answer to a page or for the pause between two pages;
\* a step of a waiting run.
LoadWaiting == \E l \in LoadIds : loads[l].state \in {"fetch", "delay"}

LoadMoved == \E l \in LoadIds : InFlight(loads[l]) /\ loads'[l] # loads[l]

\* Weak fairness of the steps of a waiting run (a page fetch settles, the
\* route answering every request within its providers' timeouts; the 100 ms
\* timer fires): WF_vars of those steps, with the enabling condition
\* LoadWaiting written out.
SpecLoad ==
  Init /\ [][NextLoad]_vars /\ ([]<>(~LoadWaiting) \/ []<><<LoadMoved>>_vars)

\* The calls that go through getAllVideos.
ConcCalls ==
  {<<"getAllVideos", Param(0, 0, EmptyStr)>>, <<"refreshAllVideos", Param(0, 0, EmptyStr)>>,
   <<"getVideo", Param(0, 0, IdAa)>>, <<"getSearch", Param(0, 0, QueryZ)>>}

\* What a call fetches after getAllVideos returned plays no part in the
\* guard of getAllVideos: its request fails.
ConcFetchResults == {FetchResult("neterr", NoResponse)}

\* The service used by several components at once, within one cache lifetime.
NextConc ==
  \/ \E c \in ConcCalls : Call(c[1], c[2])
  \/ BackgroundLoad
  \/ \E t \in TaskIds : Resume(t)
  \/ \E t \in TaskIds : \E fr \in ConcFetchResults : FetchSettle(t, fr)
  \/ \E l \in LoadIds : loads[l].state = "fetch" /\ \E fr \in LoadFetchResults(l) : LoadFetchSettle(l, fr)
  \/ \E l \in LoadIds : LoadDelayEnd(l)

SpecConc == Init /\ [][NextConc]_vars

\* The proxy routes on the server.
InitRoute ==
  /\ now = 0
  /\ ticks = 0
  /\ req = IdleReq
  /\ prevMock = NoMock
  /\ cache = EmptyCache
  /\ isLoadingAllVideos = FALSE
  /\ allVideosPromise = 0
  /\ loads = [l \in LoadIds |-> FreeLoad]
  /\ loadSeq = 0
  /\ tasks = [t \in TaskIds |-> FreeTask]
  /\ ops = 0
  /\ recent = << >>
  /\ bgTimer = FALSE
  /\ storage = [window |-> FALSE, video_cache |-> Null]
  /\ sw = NoEvent
  /\ ui = Mounted(<< >>)

NextRoute ==
  \/ \E route \in Routes : \E param \in RouteParams(route) : RouteBegin(route, param)
  \/ \E reply \in RouteReplies : \E seed \in 0..MaxSeed : ProviderSettle(reply, seed)
  \/ RouteTimerFire
  \/ RouteTick

SpecRoute == InitRoute /\ [][NextRoute]_vars

\* The cache on its own: setCache and getCache called as the service calls
\* them, with the lifetime that belongs to the key, at any time.
CacheWrites ==
  {<<ALL_VIDEOS_CACHE_KEY, << >>, CACHE_DURATION_ALL_VIDEOS>>,
   <<ALL_VIDEOS_CACHE_KEY, <<Video(IdAa, WordUntitled, 0, "doodapi")>>, CACHE_DURATION_ALL_VIDEOS>>,
   <<ListKey(1, HomePerPage),
     ApiResponse(200, <<Video(IdAa, WordUntitled, 0, "doodapi")>>, 1, "doodapi"),
     CACHE_DURATION_LIST>>,
   <<MobileKey(IdAa), Video(IdAa, WordUntitled, 0, "doodapi"), CACHE_DURATION_VIDEO>>,
   <<SearchKey(IdAa), <<Scored(Video(IdAa, WordUntitled, 0, "doodapi"), IdAa)>>,
     CACHE_DURATION_SEARCH_FULL>>}

CacheSet(key, data, duration) ==
  /\ Store(SetCache(cache, key, data, duration, now))
  /\ UNCHANGED <<now, ticks, routeVars, pageVars, isLoadingAllVideos, allVideosPromise,
                 loads, loadSeq, tasks, ops, recent, bgTimer>>

\* getCache of an entry: what it returns leaves no trace, the deletion of
\* an expired entry does.
CacheGet(key) ==
  /\ key \in DOMAIN cache
  /\ Store(GetCache(cache, key, now).cache)
  /\ UNCHANGED <<now, ticks, routeVars, pageVars, isLoadingAllVideos, allVideosPromise,
                 loads, loadSeq, tasks, ops, recent, bgTimer>>

\* On the server there is no window: the constructor arms no timer.
InitCache == InitRoute

NextCache ==
  \/ \E w \in CacheWrites : CacheSet(w[1], w[2], w[3])
  \/ \E key \in DOMAIN cache : CacheGet(key)
  \/ ClearCache
  \/ ClearExpiredCache
  \/ ClientTick

SpecCache == InitCache /\ [][NextCache]_vars

\* The pages that list videos: getAllVideos and getPopularVideos called one
\* after the other, within one cache lifetime.
BrowseCalls ==
  {<<"getAllVideos", Param(0, 0, EmptyStr)>>,
   <<"getPopularVideos", Param(0, PopularLimit, EmptyStr)>>}

NextBrowse ==
  \/ Idle /\ \E c \in BrowseCalls : Call(c[1], c[2])
  \/ Idle /\ BackgroundLoad
  \/ \E t \in TaskIds : Resume(t)
  \/ \E l \in LoadIds : loads[l].state = "fetch" /\ \E fr \in LoadFetchResults(l) : LoadFetchSettle(l, fr)
  \/ \E l \in LoadIds : LoadDelayEnd(l)

SpecBrowse == Init /\ [][NextBrowse]_vars

\* The search box of the Header and the SearchComponent of the search page
\* used side by side: searches start while earlier ones are under way, and
\* a handler goes on as soon as its call has settled.
SearchTerms == {IdAa, QueryZ}

Quiet == \A t \in TaskIds : ~Settled(t)

NextSearch ==
  \/ Quiet /\ \E query \in SearchTerms : HeaderSearch(query)
  \/ Quiet /\ \E searchTerm \in SearchTerms : ComponentSearch(searchTerm)
  \/ Quiet /\ BackgroundLoad
  \/ Quiet /\ \E t \in TaskIds : Resume(t)
  \/ Quiet /\ \E t \in TaskIds : tasks[t].pc = "fetch" /\ \E fr \in TaskFetchResults(t) : FetchSettle(t, fr)
  \/ Quiet /\ \E l \in LoadIds : loads[l].state = "fetch" /\ \E fr \in LoadFetchResults(l) : LoadFetchSettle(l, fr)
  \/ Quiet /\ \E l \in LoadIds : LoadDelayEnd(l)
  \/ \E t \in TaskIds : Deliver(t)

SpecSearch == Init /\ [][NextSearch]_vars

\* The service worker on its own: fetch events of the page and sync events,
\* with every outcome of the network.
SwMethods == {"GET", "POST"}

NextWorker ==
  \/ \E method \in SwMethods : \E path \in SwPaths : \E net \in SwNetwork :
       FetchEvent(method, path, net)
  \/ \E path \in SwPaths : \E net \in SwNetwork : BackgroundSync(path, net)

SpecWorker == Init /\ [][NextWorker]_vars

\* ------------------------------------------------------------------------
\* Claims about the proxy routes (checked under SpecRoute)
\* ------------------------------------------------------------------------
HttpSuccess(reply) == reply.kind \in {"ok", "badjson"}

FirstIndex(seq, P(_)) == CHOOSE i \in 1..Len(seq) : P(seq[i]) /\ \A j \in 1..(i - 1) : ~P(seq[j])

IsOk(reply) == reply.kind = "ok"

ContactedInOrder ==
  /\ Len(req.contacted) <= Len(Providers)
  /\ \A i \in 1..Len(req.contacted) : req.contacted[i] = Providers[i]

\* C5 (as amended): the providers are contacted in the order doodapi,
\* lulustream, sdsd; a provider is contacted only after every earlier one
\* failed, where an OK answer whose body json() cannot parse is a failure
\* too; and the response is the body of the first provider that answered
\* with HTTP success and a parsable body, tagged with its api_source.
C5_ProviderOrder ==
  /\ ContactedInOrder
  /\ \A i \in 1..Len(req.outcomes) :
       i < Len(req.contacted) => req.outcomes[i].kind \in FailKinds
  /\ (req.pc = "done" /\ \E i \in 1..Len(req.outcomes) : IsOk(req.outcomes[i]))
       => LET k == FirstIndex(req.outcomes, IsOk)
          IN req.resp = RouteResponse(Providers[k], req.outcomes[k].body)

\* C5 witness: the third provider answers after the first sent an
\* unparsable body and the second failed.
C5_Witness ==
  /\ req.pc = "done"
  /\ req.resp.api_source = "sdsd"
  /\ req.outcomes[1].kind = "badjson"
  /\ Len(req.resp.body.items) = 2

\* C5 as stated: failure means network error, abort or non-OK status only,
\* and the response is the body of the first provider that answered with
\* HTTP success.
C5_AsStated ==
  /\ ContactedInOrder
  /\ \A i \in 1..Len(req.outcomes) :
       i < Len(req.contacted) => req.outcomes[i].kind \in {"neterr", "abort", "nonok"}
  /\ (req.pc = "done" /\ \E i \in 1..Len(req.outcomes) : HttpSuccess(req.outcomes[i]))
       => LET k == FirstIndex(req.outcomes, HttpSuccess)
          IN req.resp = RouteResponse(Providers[k], req.outcomes[k].body)

\* C6: a route answers with the mock payload only after all three
\* providers were contacted and every one of them failed.
C6_MockOnlyAfterAllThree ==
  (req.pc = "done" /\ req.resp.api_source = "mock")
    => /\ req.contacted = Providers
       /\ \A i \in 1..Len(req.outcomes) : req.outcomes[i].kind \in FailKinds

\* C7: two requests to the same route with the same parameters that both
\* fall back to mock receive identical records.
C7_MockDeterministic ==
  (/\ req.pc = "done"
   /\ req.resp.api_source = "mock"
   /\ prevMock.route = req.route
   /\ prevMock.param = req.param)
    => req.resp.body = prevMock.body

\* ------------------------------------------------------------------------
\* Claims about VideoService (checked under Spec and SpecConc)
\* ------------------------------------------------------------------------
WholeCollection(task) == task.op \in {"getAllVideos", "refreshAllVideos"}

Done(t, op) == tasks[t].pc = "done" /\ tasks[t].op = op

\* C1: at most one run of loadAllVideosInternal is in flight; a getAllVideos
\* call made while a load is in flight awaits that load, and the calls that
\* awaited one load resolve to the same collection.
C1_SingleFlight ==
  /\ Cardinality({l \in LoadIds : InFlight(loads[l])}) <= 1
  /\ \A l \in LoadIds : InFlight(loads[l]) => (isLoadingAllVideos /\ allVideosPromise = l)
  /\ \A t \in TaskIds :
       (tasks[t].pc = "awaitAll" /\ InFlight(loads[tasks[t].load]))
         => tasks[t].load = allVideosPromise
  /\ \A t1, t2 \in TaskIds :
       (/\ tasks[t1].pc = "done" /\ tasks[t2].pc = "done"
        /\ WholeCollection(tasks[t1]) /\ WholeCollection(tasks[t2])
        /\ tasks[t1].inst # 0 /\ tasks[t1].inst = tasks[t2].inst)
         => tasks[t1].res = tasks[t2].res

\* C1 witness: a call made through refreshAllVideos while a load was in
\* flight has resolved together with the call that started the load, to a
\* collection that is not empty, and one load was started in all.
C1_Witness ==
  \E t1, t2 \in TaskIds :
    /\ t1 # t2
    /\ tasks[t1].pc = "done" /\ tasks[t2].pc = "done"
    /\ tasks[t1].op = "getAllVideos" /\ tasks[t2].op = "refreshAllVideos"
    /\ tasks[t1].inst # 0 /\ tasks[t1].inst = tasks[t2].inst
    /\ tasks[t1].res # Null /\ Len(tasks[t1].res[1]) > 0
    /\ loadSeq = 1

\* C2: a getListFiles call made while the cache held an expired entry with
\* files for its page, and whose request failed, resolves to the data of
\* that entry.
C2_StaleListOnFailure ==
  \A t \in TaskIds :
    (/\ Done(t, "getListFiles")
     /\ tasks[t].snapExpired /\ HasFiles(tasks[t].snap)
     /\ tasks[t].fetched /\ tasks[t].failed)
      => (tasks[t].outcome = "resolved" /\ tasks[t].res = tasks[t].snap)

\* C3: a getVideo call that went as far as the request to /api/video, and
\* whose request failed or brought no record, resolves to the mobile-cache
\* entry that was stored for the id and not cleared.
C3_StaleVideoOnFailure ==
  \A t \in TaskIds :
    (/\ Done(t, "getVideo")
     /\ Usable(tasks[t].snap)
     /\ tasks[t].fetched /\ (tasks[t].failed \/ tasks[t].badRecord))
      => (tasks[t].outcome = "resolved" /\ tasks[t].res = tasks[t].snap)

\* C4: when every provider failed for the list request of a getListFiles
\* call and the cache held an entry for the page, the call returns that
\* entry; mock records reach the caller only when there was no entry.
C4_StaleBeforeMock ==
  \A t \in TaskIds :
    (Done(t, "getListFiles") /\ tasks[t].fetched /\ tasks[t].mock /\ tasks[t].snap # Null)
      => tasks[t].res = tasks[t].snap

\* C8: every network call of VideoService that is under way carries a
\* cancellation signal armed with a timeout.
C8_EveryFetchBounded ==
  \A t \in TaskIds : tasks[t].pc = "fetch" => tasks[t].signal

\* C9: getListFiles and getSearch never reject; getListFiles resolves to
\* an ApiResponse, the status-500 one with no files when its request failed
\* and nothing was cached, and getSearch resolves to a list.
C9_NeverReject ==
  \A t \in TaskIds :
    /\ (tasks[t].pc = "done" /\ tasks[t].op \in {"getListFiles", "getSearch"})
         => (tasks[t].outcome = "resolved" /\ tasks[t].res # Null)
    /\ (/\ Done(t, "getListFiles") /\ tasks[t].fetched
        /\ (tasks[t].failed \/ tasks[t].badRecord) /\ ~HasFiles(tasks[t].old))
         => tasks[t].res = Some(FailedResponse)

\* C9 witness: a getListFiles call whose answer held a record without file
\* code has ended with the status-500 response.
C9_Witness ==
  \E t \in TaskIds :
    /\ Done(t, "getListFiles")
    /\ tasks[t].badRecord
    /\ tasks[t].outcome = "resolved"
    /\ tasks[t].res = Some(FailedResponse)

Stored(key) == cache[key].storedAt + cache[key].duration

\* C10: an entry stored by setCache at time t with a duration is returned
\* by getCache at every time up to t + duration, and at every later time
\* getCache returns null.
C10_ValidIffNotExpired ==
  \A key \in DOMAIN cache :
    /\ cache[key].expiry = Stored(key)
    /\ GetCache(cache, key, now).data =
         IF now <= Stored(key) THEN Some(cache[key].data) ELSE Null

\* C10 witness: the clock stands exactly at the expiry of an entry stored
\* earlier, which getCache still returns, while another entry has expired.
C10_Witness ==
  \E k1, k2 \in DOMAIN cache :
    /\ cache[k1].storedAt < now /\ now = cache[k1].expiry
    /\ GetCache(cache, k1, now).data = Some(cache[k1].data)
    /\ now > cache[k2].expiry
    /\ GetCache(cache, k2, now).data = Null

\* A call of refreshAllVideos starts in this step.
RefreshCalled ==
  /\ ops' = ops + 1
  /\ \E t \in TaskIds : tasks'[t] # tasks[t] /\ tasks'[t].op = "refreshAllVideos"

\* C11: an entry leaves the cache only when it has expired (a getCache read
\* or clearExpiredCache), when clearCache empties the cache, or, for the
\* all-videos key, when refreshAllVideos is called; an entry that stays is
\* unchanged unless setCache stores under its own key in this step.
C11_RemovalsOnly ==
  [][\A key \in DOMAIN cache :
       IF key \in DOMAIN cache'
       THEN cache'[key] = cache[key] \/ cache'[key].storedAt = now
       ELSE \/ now > cache[key].expiry
            \/ cache' = EmptyCache
            \/ key = ALL_VIDEOS_CACHE_KEY /\ RefreshCalled]_vars

\* C11 witness: three entries are held, one of them stored before another
\* and expired by now, after later stores under other keys.
C11_Witness ==
  /\ Cardinality(DOMAIN cache) >= 3
  /\ \E k1, k2 \in DOMAIN cache :
       /\ cache[k1].storedAt < cache[k2].storedAt
       /\ now > cache[k1].expiry

\* What an entry holds is the yield of a successful fetch: a collection or
\* a result list with at least one video, a list page with status 200 and
\* files, a video with a file code.
HoldsFetchedData(key) ==
  CASE key[1] = "all_videos_complete" -> Len(cache[key].data) > 0
    [] key[1] = "list_page" ->
         cache[key].data.status = 200 /\ Len(cache[key].data.files) > 0
    [] key[1] = "search_full" -> Len(cache[key].data) > 0
    [] key[1] = "mobile_video" -> cache[key].data.file_code # EmptyStr

\* C12: no entry of the cache holds an empty video list, an error response
\* or an error result; a load in which no page returned a video leaves no
\* all_videos_complete entry.
C12_OnlyFetchedData ==
  \A key \in DOMAIN cache : HoldsFetchedData(key)

NoDuplicates(videos) ==
  /\ \A i \in 1..Len(videos) : videos[i].file_code # EmptyStr
  /\ \A i, j \in 1..Len(videos) : i < j => videos[i].file_code # videos[j].file_code

\* The places of loaded where a file code shows up for the first time.
Firsts(loaded) ==
  {i \in 1..Len(loaded) :
     /\ loaded[i].file_code # EmptyStr
     /\ \A j \in 1..(i - 1) : loaded[j].file_code # loaded[i].file_code}

\* kept holds the first occurrences of loaded, in the order of loaded.
KeepsFirsts(loaded, kept) ==
  /\ Len(kept) = Cardinality(Firsts(loaded))
  /\ \A k \in 1..Len(kept) :
       kept[k] = loaded[CHOOSE i \in Firsts(loaded) :
                          Cardinality({j \in Firsts(loaded) : j < i}) = k - 1]

\* C13: the collection a load returns, the one stored under
\* all_videos_complete and the one getAllVideos resolves to hold no file
\* code twice and no empty file code; of the videos the pages delivered the
\* load keeps the first occurrence of each file code, in load order.
C13_Deduplicated ==
  /\ \A l \in LoadIds :
       loads[l].state = "resolved"
         => (NoDuplicates(loads[l].result) /\ KeepsFirsts(loads[l].allVideos, loads[l].result))
  /\ ALL_VIDEOS_CACHE_KEY \in DOMAIN cache => NoDuplicates(cache[ALL_VIDEOS_CACHE_KEY].data)
  /\ \A t \in TaskIds :
       (tasks[t].pc = "done" /\ WholeCollection(tasks[t])) => NoDuplicates(tasks[t].res[1])

\* C13 witness: a load has returned fewer videos than its pages delivered,
\* the same file code having come from two providers, and its collection
\* is the one in the cache.
C13_Witness ==
  \E l \in LoadIds :
    /\ loads[l].state = "resolved"
    /\ Len(loads[l].result) > 0
    /\ Len(loads[l].allVideos) > Len(loads[l].result)
    /\ \E i, j \in 1..Len(loads[l].allVideos) :
         /\ loads[l].allVideos[i].file_code = loads[l].allVideos[j].file_code
         /\ loads[l].allVideos[i].source # loads[l].allVideos[j].source
    /\ ALL_VIDEOS_CACHE_KEY \in DOMAIN cache
    /\ cache[ALL_VIDEOS_CACHE_KEY].data = loads[l].result

HasRelevance(record) == "relevance" \in DOMAIN record

\* The video records an entry holds.
RecordsOf(key) ==
  CASE key[1] = "list_page" -> cache[key].data.files
    [] key[1] = "mobile_video" -> <<cache[key].data>>
    [] OTHER -> cache[key].data

\* C14: no record held in the cache (which saveCache writes to localStorage
\* on every setCache) carries a relevance member.
C14_RelevanceNotStored ==
  \A key \in DOMAIN cache :
    \A i \in 1..Len(RecordsOf(key)) : ~HasRelevance(RecordsOf(key)[i])

\* C15: every SearchResult that getSearch returns has relevance >= 0.
C15_RelevanceNonNegative ==
  \A t \in TaskIds :
    (Done(t, "getSearch") /\ tasks[t].outcome = "resolved")
      => \A i \in 1..Len(tasks[t].res[1]) : tasks[t].res[1][i].relevance >= 0

NonIncreasing(results) ==
  \A i \in 1..(Len(results) - 1) : results[i].relevance >= results[i + 1].relevance

\* C16: every list getSearch returns, computed from the complete
\* collection, from /api/search or taken from the search cache, is ordered
\* by non-increasing relevance, and so is every list in the search cache.
C16_SortedByRelevance ==
  /\ \A t \in TaskIds :
       (Done(t, "getSearch") /\ tasks[t].outcome = "resolved")
         => NonIncreasing(tasks[t].res[1])
  /\ \A key \in DOMAIN cache :
       key[1] = "search_full" => NonIncreasing(cache[key].data)

\* C16 witness: a getSearch call was served from the search cache with two
\* results of different relevance, the first being the one the provider
\* had sent second.
C16_Witness ==
  \E t \in TaskIds :
    /\ Done(t, "getSearch")
    /\ ~tasks[t].fetched /\ tasks[t].inst = 0
    /\ Len(tasks[t].res[1]) = 2
    /\ tasks[t].res[1][1].file_code = IdC
    /\ tasks[t].res[1][1].relevance > tasks[t].res[1][2].relevance

\* C17: a clearExpiredCache call removes exactly the entries whose expiry is
\* earlier than now, returns the number of entries it removed, and leaves
\* every other entry (key, data, expiry) as it was.
C17_ClearsExactlyExpired ==
  [][ClearExpiredCache =>
       /\ DOMAIN cache' = {k \in DOMAIN cache : ~(cache[k].expiry < now)}
       /\ \A k \in DOMAIN cache' :
            /\ cache'[k].data = cache[k].data
            /\ cache'[k].expiry = cache[k].expiry
       /\ ClearExpired(cache, now).cleared
            = Cardinality((DOMAIN cache) \ (DOMAIN cache'))]_vars

\* clearExpiredCache is about to run on a cache holding an entry past its
\* expiry next to one exactly at its expiry
C17_Witness ==
  \E k1, k2 \in DOMAIN cache :
    /\ cache[k1].expiry < now
    /\ cache[k2].expiry = now
    /\ ENABLED ClearExpiredCache

\* C18: a getVideo(id) call that resolves without a request of its own to
\* /api/video (mobile cache keyed by md5(id), cached list pages, complete
\* collection) returns a Video whose file_code is id, whatever ids were
\* requested before.
C18_ReturnsRequestedVideo ==
  \A t \in TaskIds :
    (/\ Done(t, "getVideo")
     /\ tasks[t].outcome = "resolved"
     /\ ~tasks[t].fetched)
      => tasks[t].res[1].file_code = tasks[t].arg.str

C20_RefreshRefetchesPages ==
  \A t \in TaskIds :
    (/\ Done(t, "refreshAllVideos")
     /\ Len(tasks[t].res[1]) > 0)
      => /\ ListKey(1, LoadPerPage) \in DOMAIN cache
         /\ cache[ListKey(1, LoadPerPage)].storedAt = now

\* C21: in a proxy route every provider call has a timeout of its own: when
\* the call to one provider was aborted by the timeout and the next
\* provider of the chain is being called, that call carries a signal that
\* is not aborted.
C21_NextProviderNotAborted ==
  (/\ req.pc = "await"
   /\ Len(req.outcomes) > 0
   /\ req.outcomes[Len(req.outcomes)].kind = "abort")
    => ~req.aborted

\* C22: getVideo(id) consults the unexpired mobile-cache entry, then the
\* cached list pages 1 to 5 of 30, then the complete collection, then
\* /api/video: it returns from the first of them that holds the id, and
\* the /api/video request is issued only when all the earlier ones missed.
C22_SourcesInOrder ==
  [][\A t \in TaskIds :
       LET task == tasks'[t]
           id == task.arg.str
           key == MobileKey(id)
           mobile == /\ key \in DOMAIN cache
                     /\ ~(now > cache[key].expiry)
                     /\ cache[key].data.file_code # EmptyStr
           holds(files) == \E i \in 1..Len(files) : files[i].file_code = id
           pagesWith == {pg \in 1..HomePages :
                           /\ ListKey(pg, HomePerPage) \in DOMAIN cache
                           /\ holds(cache[ListKey(pg, HomePerPage)].data.files)}
           firstPage == CHOOSE pg \in pagesWith : \A q \in pagesWith : pg <= q
           called == /\ ops' = ops + 1 /\ task.op = "getVideo"
                     /\ TaskIsFree(t) /\ \A u \in 1..(t - 1) : ~TaskIsFree(u)
           resumed == /\ tasks[t].pc = "awaitAll" /\ tasks[t].op = "getVideo"
                      /\ task.pc # "awaitAll"
           cached == /\ ALL_VIDEOS_CACHE_KEY \in DOMAIN cache
                     /\ ~(now > cache[ALL_VIDEOS_CACHE_KEY].expiry)
                     /\ Len(cache[ALL_VIDEOS_CACHE_KEY].data) > 0
           collection == IF resumed THEN loads[tasks[t].load].result
                         ELSE IF cached THEN cache[ALL_VIDEOS_CACHE_KEY].data ELSE << >>
           fromFiles(files) == \E i \in 1..Len(files) :
                                 files[i].file_code = id /\ task.res = <<files[i]>>
       IN /\ (called /\ mobile) =>
               /\ task.pc = "done" /\ ~task.fetched
               /\ task.res = <<cache[key].data>>
               /\ loads' = loads
          /\ (called /\ ~mobile /\ pagesWith # {}) =>
               /\ task.pc = "done" /\ ~task.fetched
               /\ fromFiles(cache[ListKey(firstPage, HomePerPage)].data.files)
               /\ loads' = loads
          /\ ((called /\ ~mobile /\ pagesWith = {}) \/ resumed) =>
               /\ holds(collection) =>
                    (task.pc = "done" /\ ~task.fetched /\ fromFiles(collection))
               /\ task.pc = "fetch" => (~holds(collection) /\ (called => cached))
               /\ (called /\ ~cached) => task.pc = "awaitAll"
          /\ (task.op = "getVideo" /\ task.pc = "fetch" /\ tasks[t].pc # "fetch") =>
               (resumed \/ (called /\ ~mobile /\ pagesWith = {}))]_vars

\* C22 witness: a getVideo call answered from a cached home page, no run
\* of the complete-collection loader having been started
C22_Witness ==
  \E t \in TaskIds :
    /\ Done(t, "getVideo")
    /\ tasks[t].outcome = "resolved"
    /\ ~tasks[t].fetched
    /\ loadSeq = 0
    /\ ListKey(1, HomePerPage) \in DOMAIN cache
    /\ \E i \in 1..Len(cache[ListKey(1, HomePerPage)].data.files) :
         cache[ListKey(1, HomePerPage)].data.files[i] = tasks[t].res[1]

\* ------------------------------------------------------------------------
\* Claims about the service worker (checked under SpecWorker)
\* ------------------------------------------------------------------------

\* C23: for a GET request under /api/ the service worker answers with the
\* network response when it is OK and stores a copy of it in the API cache;
\* when the network call fails or is not OK it leaves the API cache alone
\* and answers with the cached response for the request if there is one and
\* with the 503 JSON Offline response otherwise; no response that is not OK
\* is ever in the API cache.
C23_NetworkFirstApi ==
  /\ [][LET path == sw'.path
            net == sw'.network
            cached == sw.api[path]
        IN (sw'.method = "GET" /\ StartsWith(path, ApiPrefix)) =>
             /\ sw'.handled
             /\ (net # Null /\ net[1].ok) =>
                  sw'.response = net /\ sw'.api[path] = net
             /\ ~(net # Null /\ net[1].ok) =>
                  /\ sw'.api = sw.api
                  /\ sw'.response = IF cached # Null THEN cached ELSE Some(OfflineJson)
             /\ sw'.dynamic = sw.dynamic]_vars
  /\ [](\A path \in SwPaths : sw.api[path] # Null => sw.api[path][1].ok)

\* A GET request under /api/ was answered from the API cache after the
\* network gave a response that is not OK.
C23_Witness ==
  /\ sw.method = "GET" /\ StartsWith(sw.path, ApiPrefix)
  /\ sw.network # Null /\ ~sw.network[1].ok
  /\ sw.api[sw.path] # Null
  /\ sw.response = sw.api[sw.path]

\* C24: handleDynamicRequest always resolves to a Response: the cached
\* response if there is one, otherwise the network response, and the 503
\* Offline response when the network call fails and nothing is cached; it
\* never resolves to null.
C24_DynamicAlwaysResponse ==
  [][LET path == sw'.path
         net == sw'.network
         cached == sw.dynamic[path]
     IN (sw'.method = "GET" /\ ~StartsWith(path, ApiPrefix)) =>
          /\ sw'.handled
          /\ sw'.response # Null
          /\ sw'.response = IF cached # Null THEN cached
                            ELSE IF net # Null THEN net
                            ELSE Some(Response(FALSE, 503, "Offline"))]_vars

\* ------------------------------------------------------------------------
\* Claims about the saved cache
\* ------------------------------------------------------------------------

\* initializeCache: the entries a new service reads from localStorage.
Restore(s) == IF s.video_cache = Null THEN Serialize(EmptyCache) ELSE s.video_cache[1]

\* C28: whenever no operation of the service is under way, the blob
\* video_cache of localStorage holds exactly the entries (key, data, expiry)
\* of the cache in memory, so that a service created from localStorage
\* starts with the same cache.
C28_BlobMatchesCache ==
  (storage.window /\ Idle /\ \A l \in LoadIds : ~InFlight(loads[l])) =>
    Restore(storage) = Serialize(cache)

\* ------------------------------------------------------------------------
\* Claims about the collection
\* ------------------------------------------------------------------------

\* getLoadingProgress at time t.
GetLoadingProgress(c, t, loading) ==
  LET allVideosCache == GetCache(c, ALL_VIDEOS_CACHE_KEY, t).data
  IN [isLoading |-> loading,
      totalVideos |-> IF allVideosCache # Null THEN Len(allVideosCache[1]) ELSE 0,
      hasCompleteData |-> allVideosCache # Null /\ Len(allVideosCache[1]) > 0]

\* C26: when a load has just stored the collection and getLoadingProgress
\* reports hasCompleteData, the load went through all its pages: it was
\* not cut short by a page fetch that failed.
C26_CompleteOnlyAfterAllPages ==
  \A l \in LoadIds :
    (/\ loads[l].state = "resolved"
     /\ GetLoadingProgress(cache, now, isLoadingAllVideos).hasCompleteData
     /\ cache[ALL_VIDEOS_CACHE_KEY].data = loads[l].result
     /\ cache[ALL_VIDEOS_CACHE_KEY].storedAt = now)
    => ~loads[l].cutShort

\* C27: a call of getPopularVideos leaves the cached collection as it was,
\* the order of its elements included: a getAllVideos call after it returns
\* what a getAllVideos call before it returned.
C27_CollectionUnchanged ==
  [][\A t \in TaskIds :
       (/\ tasks'[t].op = "getPopularVideos" /\ tasks'[t].pc = "done"
        /\ ops' = ops + 1 \/ tasks[t].pc = "awaitAll"
        /\ ALL_VIDEOS_CACHE_KEY \in DOMAIN cache
        /\ ALL_VIDEOS_CACHE_KEY \in DOMAIN cache')
       => cache'[ALL_VIDEOS_CACHE_KEY].data = cache[ALL_VIDEOS_CACHE_KEY].data]_vars

\* ------------------------------------------------------------------------
\* Claims about the searches of the components (checked under SpecSearch)
\* ------------------------------------------------------------------------

\* C25: a term passed to getSearch is in the list recent_searches of
\* localStorage from then on, until ten other distinct terms have been
\* searched after it, whichever component made each search.
C25_TermStaysRecent ==
  \A i \in 1..Len(ui.history) :
    LET term == ui.history[i]
        later == {ui.history[j] : j \in (i + 1)..Len(ui.history)} \ {term}
    IN Cardinality(later) < RecentLimit => \E k \in 1..Len(recent) : recent[k] = term

\* C29: once the handlers of all searches have run, recent_searches has at
\* most 10 entries, holds no term twice, and starts with the term that was
\* searched last.
C29_RecentListInvariant ==
  (ui.history # << >> /\ \A t \in TaskIds : ui.pending[t].who = "none") =>
    /\ Len(recent) <= RecentLimit
    /\ \A j, k \in 1..Len(recent) : recent[j] = recent[k] => j = k
    /\ recent # << >>
    /\ recent[1] = ui.history[Len(ui.history)]

\* C30: once every getSearch call of the Header has settled, the Header
\* shows the results of the query it started last: the response to an
\* earlier query has not replaced them.
C30_LastQueryShown ==
  (ui.latest # Null /\ \A t \in TaskIds : ui.pending[t].who # "header") =>
    ui.shown = ui.query \/ ui.searchResults = ui.latest[1]

====
